---------------------------- MODULE Spec2Model ----------------------------
(***************************************************************************)
(* SEVIR skill-score accumulator (examples/earthformer/sevir/helps.py):    *)
(* _threshold, SEVIRSkillScore.__init__ / calc_seq_hits_misses_fas /       *)
(* preprocess / compute and the metric functions pod, sucr, csi, bias;     *)
(* eval_rmse_func and get_parameter_names of the same file; and the FNO    *)
(* networks of ppsci/arch/tfnonet.py.                                      *)
(*                                                                         *)
(* Tensors are float32 (paddle's default dtype, and the explicit           *)
(* astype('float32') of _threshold), so the arithmetic below is IEEE-754   *)
(* binary32 with round-to-nearest-even, written on <<mantissa, exponent>>  *)
(* pairs: the pair <<m, e>> is the number m * 2^e, with m = 0 or           *)
(* 2^23 <= m < 2^24.  Counts are float32 values that are whole numbers;    *)
(* they are kept as naturals and rounded with RoundF32Nat.                 *)
(***************************************************************************)
EXTENDS Integers, Sequences, FiniteSets, TLC

VARIABLES
    mode,             \* self.mode
    seq_len,          \* self.seq_len (None when not given)
    metrics_list,     \* self.metrics_list
    preprocess_type,  \* self.preprocess_type
    keep_seq_len_dim, \* self.keep_seq_len_dim
    hits,             \* self.hits
    misses,           \* self.misses
    fas,              \* self.fas
    ret,              \* the record returned by the latest compute call
    outcome,          \* how the latest operation ended
    ncalls,           \* number of compute calls made on the instance
    sum_hits,         \* history: exact sum of the per-call hits of every call
    sum_misses,       \* history: exact sum of the per-call misses
    sum_fas,          \* history: exact sum of the per-call false alarms
    hits2, misses2, fas2, ret2, outcome2, ncalls2,  \* a second instance
    arg_target, arg_pred, arg_T,  \* the arguments of one function application
    arg_keep,         \* self.keep_seq_len_dim of that application
    th_out,           \* what _threshold returned
    calc_out,         \* what calc_seq_hits_misses_fas returned
    eval,             \* one eval_rmse_func.__call__: position, arguments, results
    net,              \* an FNONet instance and the position of its forward pass
    names             \* one get_parameter_names application

vars == <<mode, seq_len, metrics_list, preprocess_type, keep_seq_len_dim,
          hits, misses, fas, ret, outcome, ncalls,
          sum_hits, sum_misses, sum_fas,
          hits2, misses2, fas2, ret2, outcome2, ncalls2,
          arg_target, arg_pred, arg_T, arg_keep, th_out, calc_out,
          eval, net, names>>

---------------------------------------------------------------------------
(* Bounds of the model. *)

\* compute calls made on one instance
MaxCalls == 2
\* length of the sequence (T) dimension of an input tensor
MaxT == 2
\* size of the batch (N) dimension of a large input: 2^24 + 1 equal samples
BigBatch == 16777217

---------------------------------------------------------------------------
(* float32 arithmetic. *)

RECURSIVE Pow2(_)
Pow2(k) == IF k = 0 THEN 1 ELSE 2 * Pow2(k - 1)

\* precision of binary32: 24 significand bits
F32Bits == 24

F32Zero == <<0, 0>>

RECURSIVE BitLen(_)
BitLen(n) == IF n = 0 THEN 0 ELSE 1 + BitLen(n \div 2)

\* x / 2^k rounded to the nearest integer, ties to even; sticky says that
\* bits below x were already dropped (x is then strictly below the true value)
RoundShift(x, k, sticky) ==
    IF k = 0 THEN x
    ELSE LET q    == x \div Pow2(k)
             r    == x % Pow2(k)
             half == Pow2(k - 1)
             up   == \/ r > half
                     \/ r = half /\ sticky
                     \/ r = half /\ ~sticky /\ q % 2 = 1
         IN  IF up THEN q + 1 ELSE q

\* the float32 nearest to x * 2^e (x a natural below 2^31, sticky as above)
F32Round(x, e, sticky) ==
    IF x = 0 THEN F32Zero
    ELSE LET len == BitLen(x)
         IN  IF len <= F32Bits
             THEN <<x * Pow2(F32Bits - len), e - (F32Bits - len)>>
             ELSE LET k == len - F32Bits
                      q == RoundShift(x, k, sticky)
                  IN  IF q = Pow2(F32Bits)
                      THEN <<Pow2(F32Bits - 1), e + k + 1>>
                      ELSE <<q, e + k>>

\* the float32 of a natural (astype('float32') of an int32 count)
F32OfNat(n) == F32Round(n, 0, FALSE)

\* a whole-number float32 back as a natural
F32ToNat(a) == IF a[2] >= 0 THEN a[1] * Pow2(a[2]) ELSE a[1] \div Pow2(-a[2])

\* the natural n rounded to the nearest float32, as a natural
RoundF32Nat(n) == F32ToNat(F32OfNat(n))

F32Less(a, b) ==
    IF b[1] = 0 THEN FALSE
    ELSE IF a[1] = 0 THEN TRUE
    ELSE a[2] < b[2] \/ (a[2] = b[2] /\ a[1] < b[1])

F32Leq(a, b) == a = b \/ F32Less(a, b)

\* a + b for non-negative float32 a, b
F32Add(a, b) ==
    IF a[1] = 0 THEN b
    ELSE IF b[1] = 0 THEN a
    ELSE LET hi == IF a[2] >= b[2] THEN a ELSE b
             lo == IF a[2] >= b[2] THEN b ELSE a
             d  == hi[2] - lo[2]
         IN  IF d > F32Bits + 1 THEN hi
             ELSE LET lo8     == lo[1] * 8
                      shifted == lo8 \div Pow2(d)
                      sticky  == lo8 % Pow2(d) # 0
                  IN  F32Round(hi[1] * 8 + shifted, hi[2] - 3, sticky)

\* the first n bits of the quotient r / d (0 <= r < 2d), as <<bits, remainder>>
RECURSIVE LongDiv(_, _, _, _)
LongDiv(r, d, n, acc) ==
    IF n = 0 THEN <<acc, r>>
    ELSE IF r >= d THEN LongDiv(2 * (r - d), d, n - 1, 2 * acc + 1)
         ELSE LongDiv(2 * r, d, n - 1, 2 * acc)

\* a / b for non-negative float32 a and positive b
F32Div(a, b) ==
    IF a[1] = 0 THEN F32Zero
    ELSE LET qr == LongDiv(a[1], b[1], F32Bits + 2, 0)
         IN  F32Round(qr[1], a[2] - b[2] - (F32Bits + 1), qr[2] # 0)

\* a * b for non-negative float32 a, b (the 48-bit product in 12-bit limbs)
F32Mul(a, b) ==
    IF a[1] = 0 \/ b[1] = 0 THEN F32Zero
    ELSE LET L     == Pow2(12)
             ah    == a[1] \div L
             al    == a[1] % L
             bh    == b[1] \div L
             bl    == b[1] % L
             lo    == al * bl
             mid   == ah * bl + al * bh + (lo \div L)
             hi    == ah * bh + (mid \div L)
             mid_l == mid % L
             lo_l  == lo % L
             top   == hi * 4 + (mid_l \div Pow2(10))
             sticky == (mid_l % Pow2(10) # 0) \/ (lo_l # 0)
         IN  F32Round(top, a[2] + b[2] + 22, sticky)

---------------------------------------------------------------------------
(* Values and tensors. *)

\* a NaN element of a tensor (VIL intensities are never negative)
NaN == -1

\* Python's None, and an int n, as the value of an Optional[int]
None == <<>>
Some(n) == <<n>>
isinstance_int(x) == Len(x) = 1

\* the configured thresholds: the first two of the default list
threshold_list == <<16, 74>>

\* eps = 1e-4 as a float32 scalar
eps == F32Round(13743895, -37, FALSE)

\* paddle.log(paddle.to_tensor(2.0)): the float32 nearest to ln 2
log_2 == <<11629080, -24>>

\* the layout "NHWT" of the pred and target tensors
layout == <<"N", "H", "W", "T">>

\* str.find: the 0-based index of the first c in s, else -1
RECURSIVE find_from(_, _, _)
find_from(s, c, i) ==
    IF i > Len(s) THEN -1
    ELSE IF s[i] = c THEN i - 1
    ELSE find_from(s, c, i + 1)

find(s, c) == find_from(s, c, 1)

\* list(range(n))
range(n) == [i \in 1..n |-> i - 1]

\* list.pop(k) on l, giving the list that is left (k < 0 counts from the end)
pop(l, k) ==
    LET at == IF k >= 0 THEN k + 1 ELSE Len(l) + k + 1
    IN  [i \in 1..(Len(l) - 1) |-> IF i < at THEN l[i] ELSE l[i + 1]]

RECURSIVE SeqSum(_)
SeqSum(s) == IF s = <<>> THEN 0 ELSE Head(s) + SeqSum(Tail(s))

RECURSIVE SeqProd(_)
SeqProd(s) == IF s = <<>> THEN 1 ELSE Head(s) * SeqProd(Tail(s))

\* An input tensor of layout NHWT with H = W = 1 whose n samples are equal:
\* frames[k] is the element at time index k of every sample.
InputTensor(n, frames) == [shape |-> <<n, 1, 1, Len(frames)>>, frames |-> frames]

\* A state or result tensor: its shape and its elements in row-major order.
Tensor(shape, data) == [shape |-> shape, data |-> data]

\* paddle.zeros(shape=...)
zeros(shape) == Tensor(shape, [k \in 1..SeqProd(shape) |-> 0])

\* elementwise map of a unary and of a binary function over input tensors
Map1(F(_), x) == [x EXCEPT !.frames = [k \in 1..Len(x.frames) |-> F(x.frames[k])]]
Map2(F(_, _), x, y) ==
    [x EXCEPT !.frames = [k \in 1..Len(x.frames) |-> F(x.frames[k], y.frames[k])]]

isnan(v) == v = NaN

\* (variant: a strict comparison, as the docstring of _threshold words it)
GreaterStrict(v, T) == ~isnan(v) /\ v > T

\* v >= T on floats: false when v is NaN
GreaterEqual(v, T) == ~isnan(v) /\ v >= T

\* astype('float32') of a boolean
BoolToF32(b) == IF b THEN 1 ELSE 0

---------------------------------------------------------------------------
(* _threshold *)

\* x[mask] = 0
MaskedZero(x, mask) ==
    [x EXCEPT !.frames = [k \in 1..Len(x.frames) |->
                            IF mask.frames[k] THEN 0 ELSE x.frames[k]]]

_threshold(target, pred, T) ==
    LET ge(v)     == BoolToF32(GreaterEqual(v, T))
        t0        == Map1(ge, target)
        p0        == Map1(ge, pred)
        either(a, b) == isnan(a) \/ isnan(b)
        is_nan    == Map2(either, target, pred)
    IN  <<MaskedZero(t0, is_nan), MaskedZero(p0, is_nan)>>

---------------------------------------------------------------------------
(* SEVIRSkillScore: counting *)

hits_misses_fas_reduce_dims(keep) ==
    LET seq_dim == find(layout, "T")
        dims    == range(Len(layout))
    IN  IF keep THEN pop(dims, seq_dim) ELSE dims

InSeq(x, s) == \E k \in 1..Len(s) : s[k] = x

\* paddle.sum(x, axis=dims) of a float32 input tensor whose batch, height
\* and width axes are all in dims: the float32 nearest to each exact sum
sum(x, dims) ==
    LET n == x.shape[1] * x.shape[2] * x.shape[3]
    IN  IF InSeq(find(layout, "T"), dims)
        THEN Tensor(<<>>, <<RoundF32Nat(n * SeqSum(x.frames))>>)
        ELSE Tensor(<<Len(x.frames)>>,
                    [k \in 1..Len(x.frames) |-> RoundF32Nat(n * x.frames[k])])

\* astype('int32') of a whole-number float32 below 2^31: truncation toward 0
astype_int32(x) == [x EXCEPT !.data = [k \in 1..Len(x.data) |-> x.data[k] \div 1]]

Mul(a, b) == a * b
OneMinus(a) == 1 - a

\* the triple <<hits, misses, fas>> of one call for one threshold
calc_seq_hits_misses_fas(keep, pred, target, threshold) ==
    LET tp   == _threshold(target, pred, threshold)
        t    == tp[1]
        p    == tp[2]
        dims == hits_misses_fas_reduce_dims(keep)
    IN  << astype_int32(sum(Map2(Mul, t, p), dims)),
           astype_int32(sum(Map2(Mul, t, Map1(OneMinus, p)), dims)),
           astype_int32(sum(Map2(Mul, Map1(OneMinus, t), p), dims)) >>

---------------------------------------------------------------------------
(* SEVIRSkillScore: construction *)

\* __init__(mode=m, seq_len=sl, preprocess_type=pt, metrics_list=ml): the
\* fields of the instance, and how the constructor ended
\* (variant: the constructor accepts every mode without raising)
SEVIRSkillScore_any_mode(m, sl, pt, ml) ==
    [mode |-> m, seq_len |-> sl, preprocess_type |-> pt,
     metrics_list |-> ml,
     hits   |-> zeros(<<Len(threshold_list)>>),
     misses |-> zeros(<<Len(threshold_list)>>),
     fas    |-> zeros(<<Len(threshold_list)>>),
     keep_seq_len_dim |-> m \in {"1", "2"},
     outcome |-> IF m \in {"1", "2"} /\ ~isinstance_int(sl)
                 THEN "AssertionError" ELSE "constructed"]

SEVIRSkillScore(m, sl, pt, ml) ==
    LET self == [mode |-> m, seq_len |-> sl, preprocess_type |-> pt,
                 metrics_list |-> ml,
                 hits   |-> zeros(<<Len(threshold_list)>>),
                 misses |-> zeros(<<Len(threshold_list)>>),
                 fas    |-> zeros(<<Len(threshold_list)>>),
                 keep_seq_len_dim |-> FALSE,
                 outcome |-> "constructed"]
    IN  IF m \in {"0"}
        THEN [self EXCEPT !.keep_seq_len_dim = FALSE]
        ELSE IF m \in {"1", "2"}
        THEN IF isinstance_int(sl)
             THEN [self EXCEPT !.keep_seq_len_dim = TRUE]
             ELSE [self EXCEPT !.keep_seq_len_dim = TRUE,
                               !.outcome = "AssertionError"]
        ELSE [self EXCEPT !.outcome = "NotImplementedError"]

---------------------------------------------------------------------------
(* SEVIRSkillScore: metrics, elementwise on the float32 count tensors *)

AsF32(x) == [x EXCEPT !.data = [k \in 1..Len(x.data) |-> F32OfNat(x.data[k])]]

\* (variant: the scalar is not added)
AddScalarDropped(x, c) == x

Add(x, y) == [x EXCEPT !.data = [k \in 1..Len(x.data) |-> F32Add(x.data[k], y.data[k])]]
AddScalar(x, c) == [x EXCEPT !.data = [k \in 1..Len(x.data) |-> F32Add(x.data[k], c)]]
Div(x, y) == [x EXCEPT !.data = [k \in 1..Len(x.data) |-> F32Div(x.data[k], y.data[k])]]
DivScalar(x, c) == [x EXCEPT !.data = [k \in 1..Len(x.data) |-> F32Div(x.data[k], c)]]
\* paddle.pow(x, 2.0)
PowTwo(x) == [x EXCEPT !.data = [k \in 1..Len(x.data) |-> F32Mul(x.data[k], x.data[k])]]

\* the denominators  hits + misses + eps,  hits + fas + eps  and
\* hits + misses + fas + eps
pod_den(h, m, f, e) == AddScalar(Add(h, m), e)
sucr_den(h, m, f, e) == AddScalar(Add(h, f), e)
csi_den(h, m, f, e) == AddScalar(Add(Add(h, m), f), e)

\* (variant: the false alarms in the place of the misses)
pod_with_fas(h, m, f, e) == Div(h, sucr_den(h, m, f, e))

pod(h, m, f, e) == Div(h, pod_den(h, m, f, e))

sucr(h, m, f, e) == Div(h, sucr_den(h, m, f, e))

csi(h, m, f, e) == Div(h, csi_den(h, m, f, e))

\* bias = (hits + fas) / (hits + misses + eps)
bias_ratio(h, m, f, e) == Div(Add(h, f), pod_den(h, m, f, e))

bias(h, m, f, e) == PowTwo(DivScalar(bias_ratio(h, m, f, e), log_2))

MetricNames == {"pod", "csi", "sucr", "bias"}

\* metrics_dict[name](self.hits, self.misses, self.fas, self.eps)
metrics_dict(name, h, m, f, e) ==
    CASE name = "pod"  -> pod(h, m, f, e)
      [] name = "csi"  -> csi(h, m, f, e)
      [] name = "sucr" -> sucr(h, m, f, e)
      [] name = "bias" -> bias(h, m, f, e)

---------------------------------------------------------------------------
(* Python dicts and the float64 values of the score record *)

\* d[k] = v
DictSet(d, k, v) == [x \in (DOMAIN d) \cup {k} |-> IF x = k THEN v ELSE d[x]]

EmptyDict == <<>>

\* the keys of the returned mapping: a threshold, and "avg"
Key(threshold) == <<"thr", threshold>>
AvgKey == <<"avg", 0>>

\* A float64 built from float32 scores by additions and divisions, kept as
\* the expression itself: ((0 + terms[1] + terms[2] + ...) / divs[1]) / ...
Float64Zero == [terms |-> <<>>, divs |-> <<>>]
Float64Add(x, a) == [x EXCEPT !.terms = Append(@, a)]
Float64Div(x, n) == [x EXCEPT !.divs = Append(@, n)]

\* scores[i]: row i (1-based) of a tensor, one dimension less
Row(x, i) ==
    LET n == SeqProd(Tail(x.shape))
    IN  Tensor(Tail(x.shape), SubSeq(x.data, (i - 1) * n + 1, i * n))

\* x.item(): the single element of x
item(x) == x.data[1]

\* np.mean(x).item(): the element itself for a single element, else the
\* float64 mean of the elements
np_mean(x) ==
    IF Len(x) = 1 THEN x[1] ELSE [mean_of |-> x]

---------------------------------------------------------------------------
(* SEVIRSkillScore: preprocess and compute *)

\* SEVIRDataset.process_data_dict_back(...)['vil'] of a detached float32
\* tensor: an elementwise change of scale.  An element is written as the VIL
\* intensity it is mapped to, so the tensor is written the same on both sides.
process_data_dict_back(x) == InputTensor(x.shape[1], x.frames)

\* (variant: every preprocess_type is let through)
preprocess_any_type(pt, pred, target) ==
    [raised |-> "", pred |-> process_data_dict_back(pred),
     target |-> process_data_dict_back(target)]

\* preprocess(pred, target): the pair of tensors, or the exception raised
preprocess(pt, pred, target) ==
    IF pt = "sevir"
    THEN [raised |-> "", pred |-> process_data_dict_back(pred),
          target |-> process_data_dict_back(target)]
    ELSE [raised |-> "NotImplementedError", pred |-> pred, target |-> target]

\* (variant: x[i] = value, the count of the call replaces the running count)
iset_item(x, i, value) ==
    LET n    == SeqProd(Tail(x.shape))
        vn   == Len(value.data)
        fits == vn = n \/ vn = 1
        set(k) == RoundF32Nat(value.data[IF vn = 1 THEN 1 ELSE k - (i - 1) * n])
    IN  IF fits
        THEN [raised |-> "",
              x |-> [x EXCEPT !.data = [k \in 1..Len(x.data) |->
                        IF (i - 1) * n < k /\ k <= i * n THEN set(k) ELSE x.data[k]]]]
        ELSE [raised |-> "ValueError", x |-> x]

\* x[i] += value (i 1-based): the sum x[i] + value is broadcast and assigned
\* back into row i of x, which fails unless it has the shape of that row
iadd_item(x, i, value) ==
    LET n    == SeqProd(Tail(x.shape))
        vn   == Len(value.data)
        fits == vn = n \/ vn = 1
        add(k) == RoundF32Nat(x.data[k]
                     + RoundF32Nat(value.data[IF vn = 1 THEN 1 ELSE k - (i - 1) * n]))
    IN  IF fits
        THEN [raised |-> "",
              x |-> [x EXCEPT !.data = [k \in 1..Len(x.data) |->
                        IF (i - 1) * n < k /\ k <= i * n THEN add(k) ELSE x.data[k]]]]
        ELSE [raised |-> "ValueError", x |-> x]

\* one pass of the loop  for i, threshold in enumerate(self.threshold_list)
accumulate_one(st, i, keep, pred, target) ==
    LET c  == calc_seq_hits_misses_fas(keep, pred, target, threshold_list[i])
        h  == iadd_item(st.hits, i, c[1])
        m  == iadd_item(st.misses, i, c[2])
        f  == iadd_item(st.fas, i, c[3])
    IN  IF h.raised # "" THEN [st EXCEPT !.raised = h.raised]
        ELSE IF m.raised # "" THEN [st EXCEPT !.hits = h.x, !.raised = m.raised]
        ELSE IF f.raised # ""
        THEN [st EXCEPT !.hits = h.x, !.misses = m.x, !.raised = f.raised]
        ELSE [st EXCEPT !.hits = h.x, !.misses = m.x, !.fas = f.x]

\* the whole loop, from index i on; it stops at the first exception
RECURSIVE accumulate(_, _, _, _, _)
accumulate(st, i, keep, pred, target) ==
    IF i > Len(threshold_list) \/ st.raised # "" THEN st
    ELSE accumulate(accumulate_one(st, i, keep, pred, target), i + 1, keep, pred, target)

\* score_avg += score, for score_avg a float64 or a vector of float64
score_avg_add(keep, score_avg, score) ==
    IF keep
    THEN [s \in 1..Len(score_avg) |->
            Float64Add(score_avg[s],
                       score.data[IF Len(score.data) = 1 THEN 1 ELSE s])]
    ELSE Float64Add(score_avg, score)

\* (variant: the sum over the thresholds is not divided)
score_avg_undivided(keep, score_avg, n) == score_avg

\* score_avg /= len(self.threshold_list)
score_avg_div(keep, score_avg, n) ==
    IF keep
    THEN [s \in 1..Len(score_avg) |-> Float64Div(score_avg[s], n)]
    ELSE Float64Div(score_avg, n)

\* the loop over the thresholds for one metric, from index i on:
\* acc = [ret, score_avg, raised]
RECURSIVE threshold_loop(_, _, _, _, _, _)
threshold_loop(acc, i, m, keep, name, scores) ==
    IF i > Len(threshold_list) \/ acc.raised # "" THEN acc
    ELSE LET score == IF keep THEN Row(scores, i) ELSE item(Row(scores, i))
             k     == Key(threshold_list[i])
         IN  IF m \in {"0", "1"}
             THEN threshold_loop(
                    [acc EXCEPT !.ret = DictSet(@, k, DictSet(acc.ret[k], name, score)),
                                !.score_avg = score_avg_add(keep, @, score)],
                    i + 1, m, keep, name, scores)
             ELSE IF m \in {"2"}
             THEN threshold_loop(
                    [acc EXCEPT !.ret = DictSet(@, k, DictSet(acc.ret[k], name,
                                                              np_mean(score.data))),
                                !.score_avg = score_avg_add(keep, @, score)],
                    i + 1, m, keep, name, scores)
             ELSE [acc EXCEPT !.raised = "NotImplementedError"]

\* one pass of the loop  for metrics in self.metrics_list
metric_pass(r, m, sl, keep, name, h, ms, f) ==
    LET score_avg0 == IF keep THEN [s \in 1..sl[1] |-> Float64Zero] ELSE Float64Zero
        scores     == metrics_dict(name, AsF32(h), AsF32(ms), AsF32(f), eps)
        acc        == threshold_loop([ret |-> r.ret, score_avg |-> score_avg0,
                                      raised |-> ""], 1, m, keep, name, scores)
        avg        == score_avg_div(keep, acc.score_avg, Len(threshold_list))
    IN  IF acc.raised # "" THEN [ret |-> acc.ret, raised |-> acc.raised]
        ELSE IF m \in {"0", "1"}
        THEN [ret |-> DictSet(acc.ret, AvgKey, DictSet(acc.ret[AvgKey], name, avg)),
              raised |-> ""]
        ELSE IF m \in {"2"}
        THEN [ret |-> DictSet(acc.ret, AvgKey,
                              DictSet(acc.ret[AvgKey], name, np_mean(avg))),
              raised |-> ""]
        ELSE [ret |-> acc.ret, raised |-> "NotImplementedError"]

RECURSIVE metrics_loop(_, _, _, _, _, _, _, _, _)
metrics_loop(r, j, ml, m, sl, keep, h, ms, f) ==
    IF j > Len(ml) \/ r.raised # "" THEN r
    ELSE metrics_loop(metric_pass(r, m, sl, keep, ml[j], h, ms, f),
                      j + 1, ml, m, sl, keep, h, ms, f)

\* ret = {}; ret[threshold] = {} for each threshold; ret["avg"] = {}
RECURSIVE empty_ret(_)
empty_ret(i) ==
    IF i = 0 THEN EmptyDict
    ELSE DictSet(empty_ret(i - 1), Key(threshold_list[i]), EmptyDict)

\* (variant: every metric of metrics_dict is scored, whatever metrics_list says)
score_record_all(ml, m, sl, keep, h, ms, f) ==
    metrics_loop([ret |-> DictSet(empty_ret(Len(threshold_list)), AvgKey, EmptyDict),
                  raised |-> ""],
                 1, <<"pod", "csi", "sucr", "bias">>, m, sl, keep, h, ms, f)

\* the record built from the accumulated counts
score_record(ml, m, sl, keep, h, ms, f) ==
    metrics_loop([ret |-> DictSet(empty_ret(Len(threshold_list)), AvgKey, EmptyDict),
                  raised |-> ""],
                 1, ml, m, sl, keep, h, ms, f)

\* the end of a call whose loop over the thresholds left the counts st and
\* whose record is rec
returned(st, rec) ==
    IF rec.raised # ""
    THEN [hits |-> st.hits, misses |-> st.misses, fas |-> st.fas,
          ret |-> EmptyDict, outcome |-> rec.raised]
    ELSE [hits |-> st.hits, misses |-> st.misses, fas |-> st.fas,
          ret |-> rec.ret, outcome |-> "ok"]

\* the part of compute after the loop over the thresholds, which left st
score_counts(self, st) ==
    IF st.raised # ""
    THEN [hits |-> st.hits, misses |-> st.misses, fas |-> st.fas,
          ret |-> EmptyDict, outcome |-> st.raised]
    ELSE CHOOSE r \in
           { returned(st, rec) :
               rec \in {score_record(self.metrics_list, self.mode, self.seq_len,
                                     self.keep_seq_len_dim,
                                     st.hits, st.misses, st.fas)} } : TRUE

\* (variant: the record is scored on the counts of this call alone)
compute_call_only(self, pred, target) ==
    LET pp == preprocess(self.preprocess_type, pred, target)
    IN  IF pp.raised # ""
        THEN [hits |-> self.hits, misses |-> self.misses, fas |-> self.fas,
              ret |-> EmptyDict, outcome |-> pp.raised]
        ELSE CHOOSE r \in
               { [score_counts(self, one) EXCEPT !.hits = st.hits,
                                                 !.misses = st.misses,
                                                 !.fas = st.fas] :
                   st \in {accumulate([hits |-> self.hits, misses |-> self.misses,
                                       fas |-> self.fas, raised |-> ""],
                                      1, self.keep_seq_len_dim, pp.pred, pp.target)},
                   one \in {accumulate([hits |-> zeros(self.hits.shape),
                                        misses |-> zeros(self.misses.shape),
                                        fas |-> zeros(self.fas.shape), raised |-> ""],
                                       1, self.keep_seq_len_dim, pp.pred, pp.target)}
               } : TRUE

\* compute(pred, target) on the instance with fields self: the counts after
\* the call, the record returned (EmptyDict when the call raised) and how the
\* call ended.  The counts st of the loop over the thresholds are bound once,
\* as the fields the code has written before it builds the record.
compute(self, pred, target) ==
    LET pp == preprocess(self.preprocess_type, pred, target)
    IN  IF pp.raised # ""
        THEN [hits |-> self.hits, misses |-> self.misses, fas |-> self.fas,
              ret |-> EmptyDict, outcome |-> pp.raised]
        ELSE CHOOSE r \in
               { score_counts(self, st) :
                   st \in {accumulate([hits |-> self.hits, misses |-> self.misses,
                                       fas |-> self.fas, raised |-> ""],
                                      1, self.keep_seq_len_dim, pp.pred, pp.target)}
               } : TRUE

---------------------------------------------------------------------------
(* The inputs the model draws. *)

\* element values: NaN, below both thresholds, equal to the first threshold
\* (and below the second), equal to the second threshold
PixVals == {NaN, 15, 16, 74}

\* batch sizes: one sample, or BigBatch equal samples
Batches == {1, BigBatch}

\* the pred / target pairs of one shape with elements in vals
Pairs(vals) ==
    UNION { { [pred |-> InputTensor(n, fp), target |-> InputTensor(n, ft)] :
                fp \in [1..T -> vals], ft \in [1..T -> vals] } :
            n \in Batches, T \in 1..MaxT }

\* the arguments of an application of _threshold or calc_seq_hits_misses_fas
FunctionInputs == Pairs(PixVals)

\* the arguments of a compute call: elements NaN, between the two
\* thresholds, and at the second threshold
InputPairs == Pairs({NaN, 16, 74})

\* constructor arguments
Configs ==
    { [mode |-> "0", seq_len |-> None, preprocess_type |-> "sevir",
       metrics_list |-> <<"csi", "bias", "sucr", "pod">>],
      [mode |-> "0", seq_len |-> None, preprocess_type |-> "sevir",
       metrics_list |-> <<"pod", "csi">>],
      [mode |-> "0", seq_len |-> None, preprocess_type |-> "other",
       metrics_list |-> <<"csi", "bias", "sucr", "pod">>],
      [mode |-> "1", seq_len |-> Some(2), preprocess_type |-> "sevir",
       metrics_list |-> <<"csi", "bias", "sucr", "pod">>],
      [mode |-> "1", seq_len |-> Some(1), preprocess_type |-> "sevir",
       metrics_list |-> <<"pod", "csi">>],
      [mode |-> "2", seq_len |-> Some(2), preprocess_type |-> "sevir",
       metrics_list |-> <<"csi", "bias", "sucr", "pod">>],
      [mode |-> "1", seq_len |-> None, preprocess_type |-> "sevir",
       metrics_list |-> <<"csi", "bias", "sucr", "pod">>],
      [mode |-> "3", seq_len |-> Some(2), preprocess_type |-> "sevir",
       metrics_list |-> <<"csi", "bias", "sucr", "pod">>] }

---------------------------------------------------------------------------
(* The accumulator as a state machine: one instance, compute calls. *)

\* the instance as compute reads it
Self ==
    [mode |-> mode, seq_len |-> seq_len, preprocess_type |-> preprocess_type,
     metrics_list |-> metrics_list, keep_seq_len_dim |-> keep_seq_len_dim,
     hits |-> hits, misses |-> misses, fas |-> fas]

\* the constructor returned an instance
Constructed == ~(ncalls = 0 /\ outcome # "constructed")

\* the per-call totals of the counts, for the history variables
CallTotals(keep, pred, target) ==
    [i \in 1..Len(threshold_list) |->
        LET c == calc_seq_hits_misses_fas(keep, pred, target, threshold_list[i])
        IN  <<SeqSum(c[1].data), SeqSum(c[2].data), SeqSum(c[3].data)>>]

\* the variables of the second instance, when there is none
NoSecond ==
    /\ hits2 = 0 /\ misses2 = 0 /\ fas2 = 0 /\ ret2 = 0 /\ outcome2 = "" /\ ncalls2 = 0

\* the variables of a function application, when there is none
NoApplication ==
    /\ arg_target = 0 /\ arg_pred = 0 /\ arg_T = 0 /\ arg_keep = FALSE
    /\ th_out = <<>> /\ calc_out = <<>>

\* no evaluation call, no network and no get_parameter_names application
NoEval == eval = [pc |-> "idle"]
NoNet == net = [pc |-> "none"]
NoNames == names = [pc |-> "none"]

\* the first instance constructed from the arguments c
Constructs(c) ==
    LET self == SEVIRSkillScore(c.mode, c.seq_len, c.preprocess_type,
                                c.metrics_list)
    IN  /\ mode = self.mode
        /\ seq_len = self.seq_len
        /\ metrics_list = self.metrics_list
        /\ preprocess_type = self.preprocess_type
        /\ keep_seq_len_dim = self.keep_seq_len_dim
        /\ hits = self.hits
        /\ misses = self.misses
        /\ fas = self.fas
        /\ ret = EmptyDict
        /\ outcome = self.outcome
        /\ ncalls = 0
        /\ sum_hits = [i \in 1..Len(threshold_list) |-> 0]
        /\ sum_misses = [i \in 1..Len(threshold_list) |-> 0]
        /\ sum_fas = [i \in 1..Len(threshold_list) |-> 0]

Init ==
    /\ \E c \in Configs : Constructs(c)
    /\ NoSecond
    /\ NoApplication
    /\ NoEval /\ NoNet /\ NoNames

\* a compute call on the first instance, its arguments drawn from inputs
ComputeWith(inputs) ==
    /\ Constructed
    /\ ncalls < MaxCalls
    /\ \E in \in inputs :
      \E r \in {compute(Self, in.pred, in.target)} :
      \E tot \in {CallTotals(keep_seq_len_dim, in.pred, in.target)} :
        LET counted == r.outcome = "ok"
        IN  /\ hits' = r.hits
            /\ misses' = r.misses
            /\ fas' = r.fas
            /\ ret' = r.ret
            /\ outcome' = r.outcome
            /\ ncalls' = ncalls + 1
            /\ sum_hits' = [i \in 1..Len(threshold_list) |->
                              sum_hits[i] + IF counted THEN tot[i][1] ELSE 0]
            /\ sum_misses' = [i \in 1..Len(threshold_list) |->
                              sum_misses[i] + IF counted THEN tot[i][2] ELSE 0]
            /\ sum_fas' = [i \in 1..Len(threshold_list) |->
                              sum_fas[i] + IF counted THEN tot[i][3] ELSE 0]
    /\ UNCHANGED <<mode, seq_len, metrics_list, preprocess_type, keep_seq_len_dim,
                   hits2, misses2, fas2, ret2, outcome2, ncalls2,
                   arg_target, arg_pred, arg_T, arg_keep, th_out, calc_out,
                   eval, net, names>>

Compute == ComputeWith(InputPairs)

Next == Compute

Spec == Init /\ [][Next]_vars

---------------------------------------------------------------------------
(* _threshold and calc_seq_hits_misses_fas as functions: the arguments are  *)
(* drawn, the function is applied once.                                     *)

\* an instance with the default arguments stands by
DefaultInstance ==
    Constructs([mode |-> "0", seq_len |-> None, preprocess_type |-> "sevir",
                metrics_list |-> <<"csi", "bias", "sucr", "pod">>])

InitFunction ==
    /\ DefaultInstance
    /\ NoSecond
    /\ \E in \in FunctionInputs, i \in 1..Len(threshold_list), keep \in BOOLEAN :
        /\ arg_target = in.target
        /\ arg_pred = in.pred
        /\ arg_T = threshold_list[i]
        /\ arg_keep = keep
    /\ th_out = <<>>
    /\ calc_out = <<>>
    /\ NoEval /\ NoNet /\ NoNames

UnchangedInstances ==
    UNCHANGED <<mode, seq_len, metrics_list, preprocess_type, keep_seq_len_dim,
                hits, misses, fas, ret, outcome, ncalls,
                sum_hits, sum_misses, sum_fas,
                hits2, misses2, fas2, ret2, outcome2, ncalls2,
                eval, net, names>>

ApplyThreshold ==
    /\ th_out = <<>>
    /\ th_out' = _threshold(arg_target, arg_pred, arg_T)
    /\ UNCHANGED <<arg_target, arg_pred, arg_T, arg_keep, calc_out>>
    /\ UnchangedInstances

ApplyCalc ==
    /\ calc_out = <<>>
    /\ calc_out' = calc_seq_hits_misses_fas(arg_keep, arg_pred, arg_target, arg_T)
    /\ UNCHANGED <<arg_target, arg_pred, arg_T, arg_keep, th_out>>
    /\ UnchangedInstances

NextFunction == ApplyThreshold \/ ApplyCalc

SpecFunction == InitFunction /\ [][NextFunction]_vars

---------------------------------------------------------------------------
(* Two instances of one configuration, each with its own compute calls. *)

\* the arguments of the calls: one or two equal samples of one element
PairInputs ==
    { [pred |-> InputTensor(n, <<pv>>), target |-> InputTensor(n, <<tv>>)] :
        n \in {1, 2}, pv \in {16, 74}, tv \in {16, 74} }

PairConfigs ==
    { [mode |-> "0", seq_len |-> None, preprocess_type |-> "sevir",
       metrics_list |-> <<"csi", "bias", "sucr", "pod">>],
      [mode |-> "2", seq_len |-> Some(2), preprocess_type |-> "sevir",
       metrics_list |-> <<"pod", "csi">>] }

\* the second instance as compute reads it
Self2 ==
    [mode |-> mode, seq_len |-> seq_len, preprocess_type |-> preprocess_type,
     metrics_list |-> metrics_list, keep_seq_len_dim |-> keep_seq_len_dim,
     hits |-> hits2, misses |-> misses2, fas |-> fas2]

InitPair ==
    /\ \E c \in PairConfigs : Constructs(c)
    /\ hits2 = hits /\ misses2 = misses /\ fas2 = fas
    /\ ret2 = EmptyDict /\ outcome2 = outcome /\ ncalls2 = 0
    /\ NoApplication
    /\ NoEval /\ NoNet /\ NoNames

ComputeFirst == ComputeWith(PairInputs)

ComputeSecond ==
    /\ ncalls2 < MaxCalls
    /\ \E in \in PairInputs :
      \E r \in {compute(Self2, in.pred, in.target)} :
        /\ hits2' = r.hits
        /\ misses2' = r.misses
        /\ fas2' = r.fas
        /\ ret2' = r.ret
        /\ outcome2' = r.outcome
        /\ ncalls2' = ncalls2 + 1
    /\ UNCHANGED <<mode, seq_len, metrics_list, preprocess_type, keep_seq_len_dim,
                   hits, misses, fas, ret, outcome, ncalls,
                   sum_hits, sum_misses, sum_fas,
                   arg_target, arg_pred, arg_T, arg_keep, th_out, calc_out,
                   eval, net, names>>

NextPair == ComputeFirst \/ ComputeSecond

SpecPair == InitPair /\ [][NextPair]_vars

---------------------------------------------------------------------------
(* eval_rmse_func: one accumulator per __call__, one compute call per      *)
(* sample of the batch.                                                    *)

\* samples in a batch (B), and __call__s made
MaxB == 2
MaxEvalCalls == 2

\* the fields of an eval_rmse_func constructed with its default arguments
out_len == 12
metrics_mode == "0"
eval_metrics_list == <<"csi", "pod", "sucr", "bias">>

\* one sample of pred and vil_target: a single frame each
EvalSamples ==
    { [pred |-> <<pv>>, target |-> <<tv>>] : pv \in {NaN, 16, 74}, tv \in {NaN, 16, 74} }

\* the batches: B samples, 1 <= B <= MaxB
EvalBatches == UNION { [1..B -> EvalSamples] : B \in 1..MaxB }

\* x[i, ...].unsqueeze(0): sample i as a batch of one
unsqueeze0(frames) == InputTensor(1, frames)

\* paddle.to_tensor(x) of a Python float: the float32 nearest to x
to_tensor(x) == [float32_of |-> x]

\* -x of a float32 tensor
neg(x) == [neg_of |-> x]

\* x[i] = v (i 0-based) on a tensor of shape [B]
set_entry(x, i, v) == [x EXCEPT ![i + 1] = v]

\* the instance does not exist (before the first __call__ constructs one)
NoInstance ==
    /\ mode = "" /\ seq_len = None /\ metrics_list = <<>> /\ preprocess_type = ""
    /\ keep_seq_len_dim = FALSE
    /\ hits = zeros(<<0>>) /\ misses = zeros(<<0>>) /\ fas = zeros(<<0>>)
    /\ ret = EmptyDict /\ outcome = "" /\ ncalls = 0
    /\ sum_hits = <<>> /\ sum_misses = <<>> /\ sum_fas = <<>>

\* what the evaluation leaves alone
UnchangedOthers ==
    UNCHANGED <<hits2, misses2, fas2, ret2, outcome2, ncalls2,
                arg_target, arg_pred, arg_T, arg_keep, th_out, calc_out,
                net, names>>

\* number of __call__s begun
EvalCalls == IF eval.pc = "idle" THEN 0 ELSE eval.calls

\* (variant: the accumulator is emptied before every sample)
sample_call_alone(sevir_score, pred_i, target_i) ==
    compute([sevir_score EXCEPT !.hits = zeros(sevir_score.hits.shape),
                                !.misses = zeros(sevir_score.misses.shape),
                                !.fas = zeros(sevir_score.fas.shape)],
            unsqueeze0(pred_i), unsqueeze0(target_i))

\* sevir_score.compute(pred[i, ...].unsqueeze(0), vil_target[i, ...].unsqueeze(0))
sample_call(sevir_score, pred_i, target_i) ==
    compute(sevir_score, unsqueeze0(pred_i), unsqueeze0(target_i))

InitEval ==
    /\ NoInstance
    /\ NoSecond
    /\ NoApplication
    /\ NoEval /\ NoNet /\ NoNames

\* __call__ up to the loop: sevir_score is constructed, the outputs are zeros
EvalBegin ==
    /\ eval.pc \in {"idle", "returned", "raised"}
    /\ EvalCalls < MaxEvalCalls
    /\ \E batch \in EvalBatches :
        LET B    == Len(batch)
            self == SEVIRSkillScore(metrics_mode, Some(out_len), "sevir",
                                    eval_metrics_list)
        IN  /\ mode' = self.mode
            /\ seq_len' = self.seq_len
            /\ metrics_list' = self.metrics_list
            /\ preprocess_type' = self.preprocess_type
            /\ keep_seq_len_dim' = self.keep_seq_len_dim
            /\ hits' = self.hits
            /\ misses' = self.misses
            /\ fas' = self.fas
            /\ ret' = EmptyDict
            /\ outcome' = self.outcome
            /\ ncalls' = 0
            /\ sum_hits' = [i \in 1..Len(threshold_list) |-> 0]
            /\ sum_misses' = [i \in 1..Len(threshold_list) |-> 0]
            /\ sum_fas' = [i \in 1..Len(threshold_list) |-> 0]
            /\ eval' = [pc |-> "loop", calls |-> EvalCalls + 1, i |-> 0,
                        pred |-> [k \in 1..B |-> batch[k].pred],
                        target |-> [k \in 1..B |-> batch[k].target],
                        mae |-> [k \in 1..B |-> [l1_mean_of |-> batch[k]]],
                        mse |-> [k \in 1..B |-> [mse_mean_of |-> batch[k]]],
                        csi_m |-> [k \in 1..B |-> F32Zero],
                        csi_74 |-> [k \in 1..B |-> F32Zero],
                        csi_16 |-> [k \in 1..B |-> F32Zero],
                        csi_loss |-> [k \in 1..B |-> F32Zero]]
    /\ UnchangedOthers

\* one pass of the loop  for i in range(B)
EvalStep ==
    /\ eval.pc = "loop"
    /\ eval.i < Len(eval.pred)
    /\ \E r \in {sample_call(Self, eval.pred[eval.i + 1], eval.target[eval.i + 1])} :
       \E tot \in {CallTotals(keep_seq_len_dim, unsqueeze0(eval.pred[eval.i + 1]),
                              unsqueeze0(eval.target[eval.i + 1]))} :
        LET counted == r.outcome = "ok"
        IN  /\ hits' = r.hits
            /\ misses' = r.misses
            /\ fas' = r.fas
            /\ ret' = r.ret
            /\ outcome' = r.outcome
            /\ ncalls' = ncalls + 1
            /\ sum_hits' = [i \in 1..Len(threshold_list) |->
                              sum_hits[i] + IF counted THEN tot[i][1] ELSE 0]
            /\ sum_misses' = [i \in 1..Len(threshold_list) |->
                              sum_misses[i] + IF counted THEN tot[i][2] ELSE 0]
            /\ sum_fas' = [i \in 1..Len(threshold_list) |->
                              sum_fas[i] + IF counted THEN tot[i][3] ELSE 0]
            /\ eval' =
                  IF counted
                  THEN [eval EXCEPT
                          !.csi_loss = set_entry(@, eval.i,
                                          neg(to_tensor(r.ret[AvgKey]["csi"]))),
                          !.csi_m = set_entry(@, eval.i,
                                          to_tensor(r.ret[AvgKey]["csi"])),
                          !.csi_74 = set_entry(@, eval.i,
                                          to_tensor(r.ret[Key(74)]["csi"])),
                          !.csi_16 = set_entry(@, eval.i,
                                          to_tensor(r.ret[Key(16)]["csi"])),
                          !.i = @ + 1]
                  ELSE [eval EXCEPT !.pc = "raised"]
    /\ UNCHANGED <<mode, seq_len, metrics_list, preprocess_type, keep_seq_len_dim>>
    /\ UnchangedOthers

\* the return of __call__, after the last sample
EvalReturn ==
    /\ eval.pc = "loop"
    /\ eval.i = Len(eval.pred)
    /\ eval' = [eval EXCEPT !.pc = "returned"]
    /\ UNCHANGED <<mode, seq_len, metrics_list, preprocess_type, keep_seq_len_dim,
                   hits, misses, fas, ret, outcome, ncalls,
                   sum_hits, sum_misses, sum_fas>>
    /\ UnchangedOthers

NextEval == EvalBegin \/ EvalStep \/ EvalReturn

SpecEval == InitEval /\ [][NextEval]_vars

---------------------------------------------------------------------------
(* ppsci/arch/tfnonet.py: FNONet, TFNO1dNet, TFNO2dNet, TFNO3dNet.         *)
(* An instance is the record of its attributes; a tensor on its way        *)
(* through forward is the sequence of the stages applied to it.            *)

\* Fourier layers of a network, and forward passes made on it
MaxLayers == 2
MaxForwards == 2

\* the defaults of the optional parameters of FNONet.__init__ that decide
\* the structure of the network
FNONetDefaults ==
    [n_layers |-> 4, fno_skip |-> "linear", mlp_skip |-> "soft-gating",
     domain_padding |-> None, domain_padding_mode |-> "one-sided"]

\* its parameters without a default
FNONetRequired == {"input_keys", "output_keys", "n_modes"}

\* the binding of keyword arguments to the named parameters of a signature
\* that ends in **kwargs: a parameter takes the argument of its name or its
\* default, and an argument of no parameter's name goes to kwargs
bind(required, defaults, supplied) ==
    [p \in required \cup DOMAIN defaults |->
        IF p \in DOMAIN supplied THEN supplied[p] ELSE defaults[p]]

\* obj.name = value
setattr(obj, name, value) ==
    [x \in (DOMAIN obj) \cup {name} |-> IF x = name THEN value ELSE obj[x]]

\* fno_block.DomainPadding(domain_padding=..., padding_mode=...)
DomainPadding(domain_padding, padding_mode) ==
    [domain_padding |-> domain_padding, padding_mode |-> padding_mode]

\* fno_block.FNOBlocks(...): the arguments handed to it
FNOBlocks(n_modes, n_layers, fno_skip, mlp_skip) ==
    [n_modes |-> n_modes, n_layers |-> n_layers,
     fno_skip |-> fno_skip, mlp_skip |-> mlp_skip]

\* domain_padding is not None and is a list of positive sum or a positive
\* number
padding_configured(dp) ==
    /\ dp # None
    /\ \/ (dp[1].type = "list" /\ SeqSum(dp[1].xs) > 0)
       \/ (dp[1].type \in {"float", "int"} /\ dp[1].x > 0)

\* FNONet.__init__ called with the keyword arguments supplied
FNONet(supplied) ==
    LET a == bind(FNONetRequired, FNONetDefaults, supplied)
    IN  [input_keys |-> a.input_keys,
         output_keys |-> a.output_keys,
         n_dim |-> Len(a.n_modes),
         n_modes |-> a.n_modes,
         n_layers |-> a.n_layers,
         fno_skip |-> <<a.fno_skip>>,
         mlp_skip |-> <<a.mlp_skip>>,
         domain_padding |->
             IF padding_configured(a.domain_padding)
             THEN Some(DomainPadding(a.domain_padding[1], a.domain_padding_mode))
             ELSE None,
         domain_padding_mode |-> a.domain_padding_mode,
         fno_blocks |-> FNOBlocks(a.n_modes, a.n_layers, a.fno_skip, a.mlp_skip)]

\* the keyword arguments the three subclasses hand to FNONet.__init__
super_args(c, n_modes) ==
    [input_keys |-> c.input_keys, output_keys |-> c.output_keys,
     n_modes |-> n_modes, n_layers |-> c.n_layers, skip |-> c.skip,
     domain_padding |-> c.domain_padding,
     domain_padding_mode |-> c.domain_padding_mode]

TFNO1dNet(c) ==
    setattr(FNONet(super_args(c, <<c.n_modes_height>>)),
            "n_modes_height", c.n_modes_height)

TFNO2dNet(c) ==
    setattr(setattr(FNONet(super_args(c, <<c.n_modes_height, c.n_modes_width>>)),
                    "n_modes_height", c.n_modes_height),
            "n_modes_width", c.n_modes_width)

TFNO3dNet(c) ==
    setattr(setattr(setattr(
        FNONet(super_args(c, <<c.n_modes_height, c.n_modes_width, c.n_modes_depth>>)),
            "n_modes_height", c.n_modes_height),
            "n_modes_width", c.n_modes_width),
            "n_modes_height", c.n_modes_height)

\* the instance a constructor call builds
construct(call) ==
    CASE call.class = "FNONet"    -> FNONet(call.args)
      [] call.class = "TFNO1dNet" -> TFNO1dNet(call.args)
      [] call.class = "TFNO2dNet" -> TFNO2dNet(call.args)
      [] call.class = "TFNO3dNet" -> TFNO3dNet(call.args)

\* the stages of forward, each appending itself to the tensor it is given
stage(x, name, index) == Append(x, <<name, index>>)
concat_to_tensor(input_keys) == stage(<<>>, "concat_to_tensor", 0)
lifting(x) == stage(x, "lifting", 0)
pad(x) == stage(x, "pad", 0)
\* (variant: whatever the index given, the first block is applied)
fno_blocks_first(x, index) == stage(x, "fno_blocks", 0)
fno_blocks(x, index) == stage(x, "fno_blocks", index)
unpad(x) == stage(x, "unpad", 0)
projection(x) == stage(x, "projection", 0)

\* the arguments the constructors are called with
Skips == {"linear", "identity", "soft-gating"}
ModeCounts == {4, 8}
KeyTuples == {<<"output">>, <<"u", "v">>}
\* domain_padding: None, a number x (in hundredths), a list xs of numbers,
\* or a string that spells the number x
Paddings ==
    {None,
     Some([type |-> "float", x |-> 25, xs |-> <<>>]),
     Some([type |-> "int", x |-> 0, xs |-> <<>>]),
     Some([type |-> "list", x |-> 0, xs |-> <<0, 0>>]),
     Some([type |-> "list", x |-> 0, xs |-> <<0, 25>>]),
     Some([type |-> "str", x |-> 25, xs |-> <<>>])}

CommonArgs ==
    [input_keys : {<<"input">>}, output_keys : KeyTuples, n_layers : 0..MaxLayers,
     domain_padding : Paddings, domain_padding_mode : {"one-sided"}]

\* r with the fields of s added
Merge(r, s) == [x \in (DOMAIN r) \cup (DOMAIN s) |-> IF x \in DOMAIN s THEN s[x] ELSE r[x]]

NetCalls ==
    { [class |-> "FNONet", args |-> Merge(c, [n_modes |-> m, fno_skip |-> s])] :
        c \in CommonArgs, m \in {<<4>>, <<4, 8>>}, s \in Skips }
    \cup
    { [class |-> "TFNO1dNet", args |-> Merge(c, [n_modes_height |-> h, skip |-> s])] :
        c \in CommonArgs, h \in ModeCounts, s \in Skips }
    \cup
    { [class |-> "TFNO2dNet",
       args |-> Merge(c, [n_modes_height |-> h, n_modes_width |-> w, skip |-> s])] :
        c \in CommonArgs, h \in ModeCounts, w \in ModeCounts, s \in Skips }
    \cup
    { [class |-> "TFNO3dNet",
       args |-> Merge(c, [n_modes_height |-> h, n_modes_width |-> w,
                          n_modes_depth |-> d, skip |-> s])] :
        c \in CommonArgs, h \in ModeCounts, w \in ModeCounts, d \in ModeCounts,
        s \in Skips }

\* what a forward pass leaves alone
UnchangedByNet ==
    UNCHANGED <<mode, seq_len, metrics_list, preprocess_type, keep_seq_len_dim,
                hits, misses, fas, ret, outcome, ncalls,
                sum_hits, sum_misses, sum_fas,
                hits2, misses2, fas2, ret2, outcome2, ncalls2,
                arg_target, arg_pred, arg_T, arg_keep, th_out, calc_out,
                eval, names>>

\* a network has been constructed by one of the calls
InitNet ==
    /\ NoInstance
    /\ NoSecond
    /\ NoApplication
    /\ NoEval /\ NoNames
    /\ \E call \in NetCalls :
          net = [pc |-> "constructed", call |-> call, self |-> construct(call),
                 x |-> <<>>, index |-> 0, out |-> EmptyDict, forwards |-> 0]

\* x = self.concat_to_tensor(x, self.input_keys); x = self.lifting(x)
ForwardLifting ==
    /\ net.pc \in {"constructed", "returned"}
    /\ net.forwards < MaxForwards
    /\ net' = [net EXCEPT !.pc = "lifted",
                          !.x = lifting(concat_to_tensor(net.self.input_keys)),
                          !.index = 0, !.out = EmptyDict,
                          !.forwards = @ + 1]
    /\ UnchangedByNet

\* if self.domain_padding is not None: x = self.domain_padding.pad(x)
ForwardPad ==
    /\ net.pc = "lifted"
    /\ net' = [net EXCEPT !.pc = "blocks",
                          !.x = IF net.self.domain_padding # None THEN pad(@) ELSE @]
    /\ UnchangedByNet

\* one pass of  for index in range(self.n_layers)
ForwardBlock ==
    /\ net.pc = "blocks"
    /\ net.index < net.self.n_layers
    /\ net' = [net EXCEPT !.x = fno_blocks(@, range(net.self.n_layers)[net.index + 1]),
                          !.index = @ + 1]
    /\ UnchangedByNet

\* after the loop: if self.domain_padding is not None: x = ...unpad(x)
ForwardUnpad ==
    /\ net.pc = "blocks"
    /\ net.index = net.self.n_layers
    /\ net' = [net EXCEPT !.pc = "unpadded",
                          !.x = IF net.self.domain_padding # None THEN unpad(@) ELSE @]
    /\ UnchangedByNet

\* out = self.projection(x); return {self.output_keys[0]: out}
ForwardProjection ==
    /\ net.pc = "unpadded"
    /\ net' = [net EXCEPT !.pc = "returned",
                          !.out = DictSet(EmptyDict, net.self.output_keys[1],
                                          projection(net.x))]
    /\ UnchangedByNet

NextNet ==
    \/ ForwardLifting
    \/ ForwardPad
    \/ ForwardBlock
    \/ ForwardUnpad
    \/ ForwardProjection

SpecNet == InitNet /\ [][NextNet]_vars

---------------------------------------------------------------------------
(* get_parameter_names.  A module is the record of its type, the keys of   *)
(* its _parameters and its named children; a dotted name is the sequence   *)
(* of its components.                                                      *)

\* depth of a module tree
MaxDepth == 2

\* the layer types, and the classes each one is an instance of
LayerTypes == {"Linear", "LayerNorm", "MyLayerNorm"}
mro(type) ==
    CASE type = "Linear" -> {"Linear"}
      [] type = "LayerNorm" -> {"LayerNorm"}
      [] type = "MyLayerNorm" -> {"MyLayerNorm", "LayerNorm"}

\* (variant: the class of the object has to be one of the types itself)
isinstance_exact(obj, types) == obj.type \in types

\* isinstance(obj, tuple(types))
isinstance(obj, types) == \E t \in types : t \in mro(obj.type)

\* model.named_children()
named_children(model) == model.children

\* f"{name}.{n}"
dotted(name, n) == <<name>> \o n

\* list(model._parameters.keys())
parameter_keys(model) == [k \in 1..Len(model.params) |-> <<model.params[k]>>]

RECURSIVE get_parameter_names(_, _)
RECURSIVE names_of_children(_, _, _)

\* the loop over named_children from child k on: the names found below each
\* child, prefixed, kept unless the child is of a forbidden type
names_of_children(children, k, forbidden_layer_types) ==
    IF k > Len(children) THEN <<>>
    ELSE LET name  == children[k].name
             child == children[k].child
             below == get_parameter_names(child, forbidden_layer_types)
         IN  (IF ~isinstance(child, forbidden_layer_types)
              THEN [j \in 1..Len(below) |-> dotted(name, below[j])]
              ELSE <<>>)
             \o names_of_children(children, k + 1, forbidden_layer_types)

get_parameter_names(model, forbidden_layer_types) ==
    names_of_children(named_children(model), 1, forbidden_layer_types)
        \o parameter_keys(model)

\* the keys of _parameters of a module
ParamLists == {<<>>, <<"weight", "bias">>}

\* the module trees of depth at most d: no child, a child "a", or a child
\* "a" and a childless child "b"
RECURSIVE Modules(_)
Modules(d) ==
    LET node(cs) == { [type |-> t, params |-> ps, children |-> cs] :
                        t \in LayerTypes, ps \in ParamLists }
    IN  IF d = 0 THEN node(<<>>)
        ELSE node(<<>>)
             \cup UNION { node(<<[name |-> "a", child |-> a]>>) : a \in Modules(d - 1) }
             \cup UNION { node(<<[name |-> "a", child |-> a],
                                 [name |-> "b", child |-> b]>>) :
                            a \in Modules(d - 1), b \in Modules(0) }

ForbiddenLists == {{}, {"LayerNorm"}, {"MyLayerNorm"}, {"Linear", "LayerNorm"}}

\* what an application of get_parameter_names leaves alone
UnchangedByNames ==
    UNCHANGED <<mode, seq_len, metrics_list, preprocess_type, keep_seq_len_dim,
                hits, misses, fas, ret, outcome, ncalls,
                sum_hits, sum_misses, sum_fas,
                hits2, misses2, fas2, ret2, outcome2, ncalls2,
                arg_target, arg_pred, arg_T, arg_keep, th_out, calc_out,
                eval, net>>

\* the arguments are drawn
InitNames ==
    /\ NoInstance
    /\ NoSecond
    /\ NoApplication
    /\ NoEval /\ NoNet
    /\ \E m \in Modules(MaxDepth), f \in ForbiddenLists :
          names = [pc |-> "called", model |-> m, forbidden_layer_types |-> f,
                   result |-> <<>>]

\* the function is applied and returns
GetParameterNames ==
    /\ names.pc = "called"
    /\ names' = [names EXCEPT
                   !.pc = "returned",
                   !.result = get_parameter_names(names.model,
                                                  names.forbidden_layer_types)]
    /\ UnchangedByNames

NextNames == GetParameterNames

SpecNames == InitNames /\ [][NextNames]_vars

---------------------------------------------------------------------------
(* Properties of _threshold and calc_seq_hits_misses_fas (SpecFunction). *)

CountWhere(x, P(_)) ==
    x.shape[1] * x.shape[2] * x.shape[3]
        * Cardinality({k \in 1..Len(x.frames) : P(k)})

\* C2: with every dimension reduced (mode "0"), calc_seq_hits_misses_fas
\* returns hits = the number of positions with target >= T and pred >= T,
\* misses = the number with target >= T and pred < T, fas = the number with
\* target < T and pred >= T; a position with a NaN counts nowhere, so
\* hits + misses + fas is at most the number of positions without NaN.
C2_CountsPositions ==
    (calc_out # <<>> /\ ~arg_keep) =>
        LET tv(k) == arg_target.frames[k]
            pv(k) == arg_pred.frames[k]
            ok(k) == tv(k) # NaN /\ pv(k) # NaN
            hit(k)  == ok(k) /\ tv(k) >= arg_T /\ pv(k) >= arg_T
            miss(k) == ok(k) /\ tv(k) >= arg_T /\ pv(k) < arg_T
            fa(k)   == ok(k) /\ tv(k) < arg_T /\ pv(k) >= arg_T
        IN  /\ calc_out[1].data = <<CountWhere(arg_target, hit)>>
            /\ calc_out[2].data = <<CountWhere(arg_target, miss)>>
            /\ calc_out[3].data = <<CountWhere(arg_target, fa)>>
            /\ calc_out[1].data[1] + calc_out[2].data[1] + calc_out[3].data[1]
                   <= CountWhere(arg_target, ok)

---------------------------------------------------------------------------
(* Properties of the accumulator (Spec). *)

\* the float32 count of threshold index i in the state tensor x
Count(x, i) == F32OfNat(x.data[i])

F32One == F32OfNat(1)

\* C3: in mode "0", after any sequence of compute calls, hits[i], misses[i]
\* and fas[i] are the sums over the calls made so far of each call's hits,
\* misses and false alarms for threshold i.
C3_CountsAreSums ==
    (Constructed /\ mode = "0") =>
        \A i \in 1..Len(threshold_list) :
            /\ hits.data[i] = sum_hits[i]
            /\ misses.data[i] = sum_misses[i]
            /\ fas.data[i] = sum_fas[i]

\* C4: constructed with mode "1" or "2" and an integer seq_len, the instance
\* holds hits, misses and fas per (threshold, time step), of shape
\* (num_thresholds, seq_len), and a compute call adds the counts of each
\* time step to its own entry (so the call does not fail).
C4_PerStepState ==
    (Constructed /\ mode \in {"1", "2"}) =>
        /\ hits.shape = <<Len(threshold_list), seq_len[1]>>
        /\ misses.shape = <<Len(threshold_list), seq_len[1]>>
        /\ fas.shape = <<Len(threshold_list), seq_len[1]>>
        /\ outcome # "ValueError"

\* C5: no compute call resets or decreases a count: every entry of hits,
\* misses and fas after a step is at least its value before.
C5_CountsNeverDecrease ==
    [][ \A k \in 1..Len(hits.data) :
            /\ hits'.data[k] >= hits.data[k]
            /\ misses'.data[k] >= misses.data[k]
            /\ fas'.data[k] >= fas.data[k] ]_vars

\* two calls were made and counts of both thresholds are positive
C5_Witness ==
    /\ ncalls >= 2
    /\ hits.data[1] > 0 /\ hits.data[2] > 0
    /\ misses.data[2] > 0

\* C6: in mode "0" the values returned for each threshold are
\* pod = hits/(hits+misses+eps), sucr = hits/(hits+fas+eps) and
\* csi = hits/(hits+misses+fas+eps), on the counts as they are after the
\* call (the current call included).
C6_ScoresFromCounts ==
    (outcome = "ok" /\ mode = "0") =>
        \A i \in 1..Len(threshold_list) :
            LET h   == Count(hits, i)
                m   == Count(misses, i)
                f   == Count(fas, i)
                r   == ret[Key(threshold_list[i])]
                has(name) == \E j \in 1..Len(metrics_list) : metrics_list[j] = name
            IN  /\ has("pod") => r["pod"] = F32Div(h, F32Add(F32Add(h, m), eps))
                /\ has("sucr") => r["sucr"] = F32Div(h, F32Add(F32Add(h, f), eps))
                /\ has("csi") =>
                      r["csi"] = F32Div(h, F32Add(F32Add(F32Add(h, m), f), eps))

\* a second call returned scores for a threshold with hits, misses and
\* false alarms, the misses and the false alarms differing
C6_Witness ==
    /\ outcome = "ok" /\ mode = "0" /\ ncalls = 2
    /\ hits.data[2] > 0 /\ misses.data[2] > 0 /\ fas.data[2] > 0
    /\ misses.data[2] # fas.data[2]

\* the bias ratio (hits+fas)/(hits+misses+eps) of threshold index i
BiasRatio(i) ==
    F32Div(F32Add(Count(hits, i), Count(fas, i)),
           F32Add(F32Add(Count(hits, i), Count(misses, i)), eps))

\* C7: the 'bias' value is (log(b)/log(2))^2 for b the bias ratio; stated
\* where that value is a whole number: for b = 2^k it is k^2, so 0 for
\* b = 1 and the same for b = 2 and b = 1/2.
C7_LogBias ==
    (outcome = "ok" /\ mode = "0"
        /\ \E j \in 1..Len(metrics_list) : metrics_list[j] = "bias") =>
        \A i \in 1..Len(threshold_list) :
            LET b == BiasRatio(i)
                k == b[2] + (F32Bits - 1)
            IN  b[1] = Pow2(F32Bits - 1) =>
                    ret[Key(threshold_list[i])]["bias"] = F32OfNat(k * k)

\* the metrics of the current counts, as compute evaluates them
CurPod == pod(AsF32(hits), AsF32(misses), AsF32(fas), eps)
CurSucr == sucr(AsF32(hits), AsF32(misses), AsF32(fas), eps)
CurCsi == csi(AsF32(hits), AsF32(misses), AsF32(fas), eps)
CurDens ==
    << pod_den(AsF32(hits), AsF32(misses), AsF32(fas), eps),
       sucr_den(AsF32(hits), AsF32(misses), AsF32(fas), eps),
       csi_den(AsF32(hits), AsF32(misses), AsF32(fas), eps) >>

\* in every state of a constructed instance every denominator is positive
\* and csi <= pod, csi <= sucr, all three at least 0
DenominatorsPositive ==
    \A i \in 1..Len(threshold_list) :
        /\ \A d \in 1..3 : F32Less(F32Zero, CurDens[d].data[i])
        /\ F32Leq(F32Zero, CurCsi.data[i])
        /\ F32Leq(CurCsi.data[i], CurPod.data[i])
        /\ F32Leq(CurCsi.data[i], CurSucr.data[i])

\* C8 as stated: with eps > 0 every denominator of pod, sucr, csi and bias
\* is positive in every reachable state, and pod, sucr and csi lie in [0, 1)
\* with csi <= pod and csi <= sucr.
C8_ScoresBelowOne ==
    Constructed =>
        /\ DenominatorsPositive
        /\ \A i \in 1..Len(threshold_list) :
            /\ F32Less(CurPod.data[i], F32One)
            /\ F32Less(CurSucr.data[i], F32One)
            /\ F32Less(CurCsi.data[i], F32One)

\* C8 amended: the same with pod, sucr and csi in [0, 1]; the value 1 is
\* taken once the float32 sum of the counts absorbs eps.
C8_ScoresAtMostOne ==
    Constructed =>
        /\ DenominatorsPositive
        /\ \A i \in 1..Len(threshold_list) :
            /\ F32Leq(CurPod.data[i], F32One)
            /\ F32Leq(CurSucr.data[i], F32One)
            /\ F32Leq(CurCsi.data[i], F32One)

\* a call returned with one threshold at pod = 1 and the other threshold
\* with all counts zero (its denominators are eps alone)
C8_Witness ==
    /\ outcome = "ok"
    /\ CurPod.data[1] = F32One
    /\ hits.data[2] = 0 /\ misses.data[2] = 0 /\ fas.data[2] = 0

\* C10: a successful compute call returns a mapping whose keys are the
\* configured thresholds and "avg", each value a mapping whose keys are
\* exactly the names of metrics_list.
C10_RecordKeys ==
    outcome = "ok" =>
        /\ DOMAIN ret = {Key(threshold_list[i]) : i \in 1..Len(threshold_list)}
                            \cup {AvgKey}
        /\ \A k \in DOMAIN ret :
              DOMAIN ret[k] = {metrics_list[j] : j \in 1..Len(metrics_list)}

\* a call returned on an instance whose metrics_list is not the default
C10_Witness ==
    /\ outcome = "ok"
    /\ metrics_list = <<"pod", "csi">>
    /\ DOMAIN ret[AvgKey] = {"pod", "csi"}

\* the float64 mean of the scores xs: their sum from 0, in order, divided by
\* their number
MeanOf(xs) == [terms |-> xs, divs |-> <<Len(xs)>>]

\* C11: in mode "0", for every metric of metrics_list, ret["avg"][metric] is
\* the arithmetic mean over the configured thresholds of
\* ret[threshold][metric]: the sum of the per-threshold scores divided by
\* len(threshold_list), each threshold weighted equally.
C11_AvgIsMean ==
    (mode = "0" /\ outcome = "ok") =>
        \A j \in 1..Len(metrics_list) :
            ret[AvgKey][metrics_list[j]] =
                MeanOf([i \in 1..Len(threshold_list) |->
                           ret[Key(threshold_list[i])][metrics_list[j]]])

\* a mode "0" call returned scores that differ between the two thresholds
C11_Witness ==
    /\ mode = "0"
    /\ outcome = "ok"
    /\ ret[Key(threshold_list[1])]["csi"] # ret[Key(threshold_list[2])]["csi"]
    /\ ret[AvgKey]["csi"].divs = <<2>>

\* the scores of one metric on the counts as they are, one row per threshold
CurScores(name) == metrics_dict(name, AsF32(hits), AsF32(misses), AsF32(fas), eps)

\* C12: in modes "1" and "2" a compute call returns per-step results: the
\* counts are held per (threshold, time step) and each metric is computed
\* from them per (threshold, time step); in mode "2" ret[threshold][metric]
\* is the mean over the seq_len steps of that threshold's per-step scores
\* and ret["avg"][metric] the mean over the steps of the per-step mean over
\* the thresholds, both scalars; in mode "1" the same per-step values are
\* returned as vectors of length seq_len.
C12_PerStepScores ==
    (Constructed /\ ncalls > 0 /\ mode \in {"1", "2"}) =>
        /\ outcome = "ok"
        /\ hits.shape = <<Len(threshold_list), seq_len[1]>>
        /\ \A j \in 1..Len(metrics_list) :
            LET name == metrics_list[j]
                per_step(i) == Row(CurScores(name), i)
                step_avg == [s \in 1..seq_len[1] |->
                               MeanOf([i \in 1..Len(threshold_list) |->
                                          per_step(i).data[s]])]
            IN  /\ \A i \in 1..Len(threshold_list) :
                      /\ Len(per_step(i).data) = seq_len[1]
                      /\ ret[Key(threshold_list[i])][name] =
                            IF mode = "2" THEN np_mean(per_step(i).data)
                            ELSE per_step(i)
                /\ ret[AvgKey][name] =
                      IF mode = "2" THEN np_mean(step_avg) ELSE step_avg

\* C13: constructing with a mode other than "0", "1" or "2" raises
\* NotImplementedError and leaves no instance to call; so on every instance
\* that was constructed the mode is one of the three, and the aggregation of
\* compute on its counts never reaches a NotImplementedError branch.
C13_ModeCheckedAtConstruction ==
    /\ mode \notin {"0", "1", "2"} =>
          (outcome = "NotImplementedError" /\ ncalls = 0 /\ ret = EmptyDict)
    /\ Constructed =>
          /\ mode \in {"0", "1", "2"}
          /\ score_record(metrics_list, mode, seq_len, keep_seq_len_dim,
                          hits, misses, fas).raised # "NotImplementedError"

\* the constructor was given the mode "3" and raised
C13_Witness ==
    /\ mode = "3"
    /\ outcome = "NotImplementedError"
    /\ ~Constructed

\* C17: on an instance whose preprocess_type is not "sevir", every compute
\* call raises NotImplementedError before a count is touched: hits, misses
\* and fas are after the call what they were before it, and no record is
\* returned.
C17_PreprocessRaisesFirst ==
    [][preprocess_type # "sevir" =>
          /\ outcome' = "NotImplementedError"
          /\ hits' = hits /\ misses' = misses /\ fas' = fas
          /\ ret' = EmptyDict]_vars

\* a second call on an instance with preprocess_type "other" has raised
C17_Witness ==
    /\ preprocess_type = "other"
    /\ ncalls = 2
    /\ outcome = "NotImplementedError"
    /\ hits = zeros(<<Len(threshold_list)>>)

---------------------------------------------------------------------------
(* Properties of eval_rmse_func (SpecEval). *)

\* hits, misses and false alarms of sample k of the batch at threshold T,
\* counted frame by frame
SampleCounts(k, T) ==
    LET n == Len(eval.pred[k])
        valid(j) == eval.pred[k][j] # NaN /\ eval.target[k][j] # NaN
        is(j, p, t) == /\ valid(j)
                       /\ (eval.pred[k][j] >= T) = p
                       /\ (eval.target[k][j] >= T) = t
    IN  <<Cardinality({j \in 1..n : is(j, TRUE, TRUE)}),
          Cardinality({j \in 1..n : is(j, FALSE, TRUE)}),
          Cardinality({j \in 1..n : is(j, TRUE, FALSE)})>>

\* the same counts summed over the samples 1..k
RECURSIVE RunningCounts(_, _)
RunningCounts(k, T) ==
    IF k = 0 THEN <<0, 0, 0>>
    ELSE LET a == RunningCounts(k - 1, T)
             b == SampleCounts(k, T)
         IN  <<a[1] + b[1], a[2] + b[2], a[3] + b[3]>>

\* csi = hits / (hits + misses + fas + eps) of the counts c
CsiOf(c) ==
    LET h == F32OfNat(c[1])
        m == F32OfNat(c[2])
        f == F32OfNat(c[3])
    IN  F32Div(h, F32Add(F32Add(F32Add(h, m), f), eps))

\* C18: every __call__ of eval_rmse_func starts from a fresh accumulator
\* with all counts zero, so nothing carries over from an earlier batch; in
\* the call, entry i of csi_16, csi_74 and csi_m is the score of the counts
\* accumulated over the samples 0..i (a running score), and
\* valid_loss_epoch[i] = -csi_m[i].
C18_FreshRunningScores ==
    eval.pc # "idle" =>
        /\ (eval.pc = "loop" /\ eval.i = 0) =>
              /\ hits = zeros(<<Len(threshold_list)>>)
              /\ misses = zeros(<<Len(threshold_list)>>)
              /\ fas = zeros(<<Len(threshold_list)>>)
        /\ \A k \in 1..eval.i :
              /\ eval.csi_16[k] = to_tensor(CsiOf(RunningCounts(k, 16)))
              /\ eval.csi_74[k] = to_tensor(CsiOf(RunningCounts(k, 74)))
              /\ eval.csi_m[k] =
                    to_tensor(MeanOf(<<CsiOf(RunningCounts(k, 16)),
                                       CsiOf(RunningCounts(k, 74))>>))
              /\ eval.csi_loss[k] = neg(eval.csi_m[k])

\* a second __call__ returned for a batch of two samples whose second entry
\* of csi_16 is neither the first entry nor the score of the second sample
\* alone
C18_Witness ==
    /\ eval.pc = "returned"
    /\ eval.calls = 2
    /\ eval.i = 2
    /\ eval.csi_16[2] # eval.csi_16[1]
    /\ eval.csi_16[2] # to_tensor(CsiOf(SampleCounts(2, 16)))

---------------------------------------------------------------------------
(* Properties of the FNO networks (SpecNet). *)

\* the stages of one forward pass of the network self, in order
ExpectedStages(self) ==
    LET padded == self.domain_padding # None
    IN  <<<<"concat_to_tensor", 0>>, <<"lifting", 0>>>>
        \o (IF padded THEN <<<<"pad", 0>>>> ELSE <<>>)
        \o [i \in 1..self.n_layers |-> <<"fno_blocks", i - 1>>]
        \o (IF padded THEN <<<<"unpad", 0>>>> ELSE <<>>)
        \o <<<<"projection", 0>>>>

\* s is the beginning of t
IsPrefix(s, t) == Len(s) <= Len(t) /\ s = SubSeq(t, 1, Len(s))

\* C14: forward applies lifting once, then the padding (only when a
\* domain-padding object was configured), then the Fourier blocks 0, 1, ...,
\* n_layers-1 in increasing order, each once, then the unpadding exactly
\* when the padding was applied, then the projection once; what it returns
\* is a mapping with the single key output_keys[0].
C14_ForwardOrder ==
    /\ net.pc \notin {"none", "constructed"} =>
          IsPrefix(net.x, ExpectedStages(net.self))
    /\ net.pc = "returned" =>
          /\ DOMAIN net.out = {net.self.output_keys[1]}
          /\ net.out[net.self.output_keys[1]] = ExpectedStages(net.self)

\* a second forward pass returned on a padded network of two Fourier layers
C14_Witness ==
    /\ net.pc = "returned"
    /\ net.forwards = 2
    /\ net.self.n_layers = 2
    /\ net.self.domain_padding # None
    /\ Len(net.out[net.self.output_keys[1]]) = 7

\* the three subclasses
TFNOClasses == {"TFNO1dNet", "TFNO2dNet", "TFNO3dNet"}

\* C15: for TFNO1dNet, TFNO2dNet and TFNO3dNet the constructor argument
\* skip decides the skip connection of the Fourier blocks: the skip type
\* handed to fno_block.FNOBlocks is the value passed as skip.
C15_SkipHandedOn ==
    net.call.class \in TFNOClasses =>
        net.self.fno_blocks.fno_skip = net.call.args.skip

\* C16: TFNO1dNet, TFNO2dNet and TFNO3dNet construct an FNONet of
\* dimensionality 1, 2 and 3: n_dim = len(n_modes), n_modes is the tuple of
\* the given mode counts in the order (height, width, depth), and each given
\* mode count is kept on the instance under its own attribute
\* n_modes_height, n_modes_width, n_modes_depth.
C16_ModesRetained ==
    net.call.class \in TFNOClasses =>
        LET a    == net.call.args
            dims == CASE net.call.class = "TFNO1dNet" -> <<"n_modes_height">>
                      [] net.call.class = "TFNO2dNet" ->
                            <<"n_modes_height", "n_modes_width">>
                      [] net.call.class = "TFNO3dNet" ->
                            <<"n_modes_height", "n_modes_width", "n_modes_depth">>
        IN  /\ net.self.n_dim = Len(dims)
            /\ net.self.n_dim = Len(net.self.n_modes)
            /\ net.self.n_modes = [k \in 1..Len(dims) |-> a[dims[k]]]
            /\ \A k \in 1..Len(dims) :
                  /\ dims[k] \in DOMAIN net.self
                  /\ net.self[dims[k]] = a[dims[k]]

---------------------------------------------------------------------------
(* Properties of get_parameter_names (SpecNames). *)

\* the dotted names of all parameters in the tree of module m
RECURSIVE AllParameters(_)
AllParameters(m) ==
    { <<m.params[k]>> : k \in 1..Len(m.params) }
    \cup UNION { { <<m.children[k].name>> \o p : p \in AllParameters(m.children[k].child) } :
                   k \in 1..Len(m.children) }

\* the sub-module of m that the child names of path lead to
RECURSIVE ModuleAt(_, _)
ModuleAt(m, path) ==
    IF path = <<>> THEN m
    ELSE LET k == CHOOSE j \in 1..Len(m.children) : m.children[j].name = Head(path)
         IN  ModuleAt(m.children[k].child, Tail(path))

\* the module is of one of the types, a subclass counting as its base class
OfForbiddenType(m, types) ==
    \E t \in types :
        \/ m.type = t
        \/ (m.type = "MyLayerNorm" /\ t = "LayerNorm")

\* the parameters with no module of a forbidden type on the way from the
\* root (the root itself left out) to the parameter
AllowedParameters(m, types) ==
    { p \in AllParameters(m) :
        \A k \in 1..(Len(p) - 1) : ~OfForbiddenType(ModuleAt(m, SubSeq(p, 1, k)), types) }

\* C19: get_parameter_names returns (so it terminates on the finite tree)
\* exactly the dotted names of the parameters that are not inside a
\* descendant sub-module of a forbidden type: every parameter at or below a
\* forbidden child is left out, every other one, those of the root
\* included, appears exactly once.
C19_AllowedNamesOnce ==
    names.pc = "returned" =>
        /\ { names.result[k] : k \in 1..Len(names.result) } =
              AllowedParameters(names.model, names.forbidden_layer_types)
        /\ \A j, k \in 1..Len(names.result) :
              names.result[j] = names.result[k] => j = k

\* the function returned on a tree of depth two whose root is of a forbidden
\* type and has its own parameters, with parameters two levels down kept and
\* the parameters of a forbidden child left out
C19_Witness ==
    /\ names.pc = "returned"
    /\ names.forbidden_layer_types = {"LayerNorm"}
    /\ names.model.type = "LayerNorm"
    /\ <<"weight">> \in { names.result[k] : k \in 1..Len(names.result) }
    /\ <<"a", "a", "weight">> \in { names.result[k] : k \in 1..Len(names.result) }
    /\ <<"b", "weight">> \in AllParameters(names.model)
    /\ <<"b", "weight">> \notin { names.result[k] : k \in 1..Len(names.result) }

---------------------------------------------------------------------------
(* Properties of two instances (SpecPair). *)

\* C9: the record returned is a function of the accumulated counts alone:
\* two instances of one configuration whose hits, misses and fas are equal
\* after their latest calls returned equal records, whatever the number,
\* order or grouping of the calls behind those counts.
C9_RecordFromCounts ==
    (outcome = "ok" /\ outcome2 = "ok"
        /\ hits = hits2 /\ misses = misses2 /\ fas = fas2) =>
        ret = ret2

\* equal non-zero counts reached by one call on one instance and by two
\* calls on the other
C9_Witness ==
    /\ outcome = "ok" /\ outcome2 = "ok"
    /\ hits = hits2 /\ misses = misses2 /\ fas = fas2
    /\ ncalls = 1 /\ ncalls2 = 2
    /\ hits.data[2] > 0
    /\ ret = ret2

=============================================================================
